---- MODULE Spec2Model ----
(***************************************************************************)
(* Model of the background scheduling and capture subsystem of Recall:     *)
(*   - the due-task scanner and the recurrence calculator                  *)
(*     (src/main/index.ts, database.ts),                                   *)
(*   - the clipboard capture watcher (src/main/clipboard.ts),              *)
(*   - the window toggle machine (src/main/index.ts).                      *)
(* Instants are whole seconds since 2024-01-01T00:00:00 (a Monday); the    *)
(* local time zone is taken to be UTC, so that the local-time setters of   *)
(* Date and toISOString() agree.                                           *)
(***************************************************************************)
EXTENDS Integers, Naturals, Sequences, FiniteSets, TLC

VARIABLES
    \* ---- task store and due-task scanner
    tasks,          \* rows of the tasks table: id -> row, or NoTask
    now,            \* the wall clock read by getDueTasks
    scanPc,         \* position of checkDueTasks: "idle", "loop", "update"
    scanQueue,      \* rows returned by getDueTasks still to be processed
    scanStart,      \* the tasks table as it was when the running scan began
    fired,          \* ids notified so far by the running scan
    fireCount,      \* id -> notifications shown for the task as a one-shot
                    \*       task since it was added or last edited
    edited,         \* <<id, notified before the edit>> for the tasks whose
                    \*       last store operation since the last scan was update-task
    notifShown      \* TRUE once a notification has been put on the screen

scanVars == <<tasks, now, scanPc, scanQueue, scanStart, fired, fireCount, edited, notifShown>>

VARIABLES
    \* ---- external clipboard and ClipboardWatcher
    clip,             \* content of the system clipboard: [img, txt]
    lastContent,      \* ClipboardWatcher.lastContent
    lastImageHash,    \* ClipboardWatcher.lastImageHash
    paused,           \* ClipboardWatcher.paused
    resumeTimeout,    \* TRUE while the timer set by resume() is pending
    ignoreNextChange, \* ClipboardWatcher.ignoreNextChange
    awaiting,         \* copy-to-clipboard requests inside their 200 ms wait
    lastEvent,        \* the capture event passed to onClip by the last step
    emitCount,        \* capture events emitted so far (saturating)
    held,             \* the content of the last copy-to-clipboard write, while
                      \*   the clipboard has held it ever since
    pollReads,        \* what the poll ticks have read: nothing yet, always the
                      \*   same content, or different contents
    allReads,         \* the same for the reads of the ticks and of resume()
    uncaught,         \* the call that threw out of the interval callback:
                      \*   "none", "onClip" or "read"
    pendingUser       \* the clipboard holds content the user put there while
                      \*   a copy-to-clipboard was under way, not captured yet

watchVars == <<clip, lastContent, lastImageHash, paused, resumeTimeout, ignoreNextChange,
               awaiting, lastEvent, emitCount, held, pollReads, allReads, uncaught,
               pendingUser>>

VARIABLES
    \* ---- main window and toggle machine; time in units of 10 ms
    visible,           \* mainWindow.isVisible()
    pageState,         \* load of the page: "loading", "dom", "loaded", "failed"
    isContentReady,
    isShowingWindow,
    isToggling,
    sinceToggle,       \* Date.now() - lastToggleTime, saturating at AgeCap
    showWindowTimeout, \* the timer showWindowTimeout refers to, or NoTimer
    readyTimers,       \* pending timers of showWindowWhenReady / checkReady
    toggleTimers,      \* pending timers that reset isToggling
    loadTimers,        \* pending setTimeout(markContentReady, ...)
    toggleOut,         \* what the last step did: "none", "window-shown",
                       \*   "window-hidden", "navigate-to-task", and for a blur
                       \*   "blur-ignored" or "blur-hidden" ('window-hidden' sent)
    cancelled,         \* TRUE from a hotkey press that cancelled a pending
                       \*   readiness wait until the next hotkey press or click
    rehidden           \* TRUE from the hiding of a visible window until the
                       \*   window is shown again

togVars == <<visible, pageState, isContentReady, isShowingWindow, isToggling, sinceToggle,
             showWindowTimeout, readyTimers, toggleTimers, loadTimers, toggleOut, cancelled,
             rehidden>>

VARIABLES
    \* ---- one evaluation of the recurrence calculator
    calcBase,       \* currentRemindAt passed to calculateNextReminder
    calcSpec,       \* the interval passed to it
    calcOut,        \* what it returned, NullTime before the call
    calcOut2,       \* what it returned when called again on calcOut
    \* ---- one evaluation of matchesCronField
    mField,         \* the field pattern
    mValue,         \* the value tested
    mRange,         \* <<min, max>> of the field
    mOut            \* "none" before the call, then the BOOLEAN returned

calcVars == <<calcBase, calcSpec, calcOut, calcOut2, mField, mValue, mRange, mOut>>

VARIABLES
    clips,      \* the rows of the table clips, oldest first
    maxClips    \* the maxClips setting

storeVars == <<clips, maxClips>>

vars == <<scanVars, watchVars, togVars, calcVars, storeVars>>

ScanFrame == UNCHANGED <<watchVars, togVars, calcVars, storeVars>>
WatchFrame == UNCHANGED <<scanVars, togVars, calcVars, storeVars>>
TogFrame == UNCHANGED <<scanVars, watchVars, calcVars, storeVars>>
CalcFrame == UNCHANGED <<scanVars, watchVars, togVars, storeVars>>
StoreFrame == UNCHANGED <<scanVars, watchVars, togVars, calcVars>>

-----------------------------------------------------------------------------
(* Bounds                                                                  *)

MaxTasks == 2
MaxScanTime == 2
CalendarYears == 9
MaxInFlight == 2
MaxToggleTimers == 2
EmitCap == 2
ReadCap == 2
MaxClipsSetting == 3

-----------------------------------------------------------------------------
(* Calendar arithmetic of the JavaScript Date object                       *)

EpochYear == 2024
SecPerMin == 60
SecPerHour == 3600
SecPerDay == 86400

IsLeap(y) == (y % 4 = 0) /\ ((y % 100 # 0) \/ (y % 400 = 0))

CumDays == <<0, 31, 59, 90, 120, 151, 181, 212, 243, 273, 304, 334>>

\* days from the epoch to January 1st of year y (no century between 2024 and 2099)
DaysBeforeYear(y) == 365 * (y - EpochYear) + ((y - 2021) \div 4)

\* days from January 1st of y to the first of month m0 (0 = January)
DaysBeforeMonth(y, m0) == CumDays[m0 + 1] + (IF IsLeap(y) /\ m0 >= 2 THEN 1 ELSE 0)

DaysInMonth(y, m0) ==
    IF m0 = 1 THEN (IF IsLeap(y) THEN 29 ELSE 28)
    ELSE IF m0 \in {3, 5, 8, 10} THEN 30 ELSE 31

\* MakeDay: month and day may lie outside their range and carry over
DayNumber(y, m0, d) ==
    LET y2 == y + (m0 \div 12)
        m2 == m0 % 12
    IN  DaysBeforeYear(y2) + DaysBeforeMonth(y2, m2) + (d - 1)

MaxDayNum == DaysBeforeYear(EpochYear + CalendarYears) - 1

Calendar ==
    [dn \in 0..MaxDayNum |->
        LET y == CHOOSE yy \in EpochYear..(EpochYear + CalendarYears - 1) :
                    DaysBeforeYear(yy) <= dn /\ dn < DaysBeforeYear(yy + 1)
            m == CHOOSE mm \in 0..11 :
                    /\ DaysBeforeYear(y) + DaysBeforeMonth(y, mm) <= dn
                    /\ dn < DaysBeforeYear(y) + DaysBeforeMonth(y, mm) + DaysInMonth(y, mm)
        IN  [y |-> y, m |-> m, d |-> dn - DaysBeforeYear(y) - DaysBeforeMonth(y, m) + 1]]

getFullYear(t) == Calendar[t \div SecPerDay].y
getMonth(t) == Calendar[t \div SecPerDay].m
getDate(t) == Calendar[t \div SecPerDay].d
getDay(t) == ((t \div SecPerDay) + 1) % 7
getHours(t) == (t % SecPerDay) \div SecPerHour
getMinutes(t) == (t % SecPerHour) \div SecPerMin
getSeconds(t) == t % SecPerMin

setMonth(t, m0) == DayNumber(getFullYear(t), m0, getDate(t)) * SecPerDay + (t % SecPerDay)
setDate(t, d) == DayNumber(getFullYear(t), getMonth(t), d) * SecPerDay + (t % SecPerDay)
setHours(t, h) == (t \div SecPerDay) * SecPerDay + h * SecPerHour + (t % SecPerHour)
setMinutes(t, mi) == (t \div SecPerHour) * SecPerHour + mi * SecPerMin + (t % SecPerMin)
setSeconds(t, s) == (t \div SecPerMin) * SecPerMin + s

\* the instant of calendar date y-(m0+1)-d at h:mi:00
At(y, m0, d, h, mi) == DayNumber(y, m0, d) * SecPerDay + h * SecPerHour + mi * SecPerMin

-----------------------------------------------------------------------------
(* Recurrence strings.  A recurringInterval is modelled by what the regular *)
(* expressions of calculateNextReminder extract from it:                   *)
(*   kind "null"    no recurrence (NULL column)                            *)
(*   kind "empty"   the empty string                                       *)
(*   kind "simple"  /^(\d+)([hmd])$/ with amount n and unit                *)
(*   kind "weekly"  /^weekly:([a-z]{3})$/ with the abbreviation in unit    *)
(*   kind "monthly" /^monthly:(\d+|last)$/ with day n, or unit = "last"    *)
(*   kind "cron"    /^cron:(.+)$/ with the whitespace-separated parts      *)
(*   kind "other"   a string none of the patterns matches                  *)

Rec(kind, n, unit, cron) == [kind |-> kind, n |-> n, unit |-> unit, cron |-> cron]

NullRec == Rec("null", 0, "", <<>>)
EmptyRec == Rec("empty", 0, "", <<>>)
OtherRec == Rec("other", 0, "", <<>>)
SimpleRec(n, unit) == Rec("simple", n, unit, <<>>)
WeeklyRec(abbr) == Rec("weekly", 0, abbr, <<>>)
MonthlyRec(day) == Rec("monthly", day, "", <<>>)
MonthlyLastRec == Rec("monthly", 0, "last", <<>>)
CronRec(parts) == Rec("cron", 0, "", parts)

(* A cron field is modelled by the pattern of matchesCronField it has:     *)
(*   "star" *, "num" a, "range" a-b, "stepstar" */n, "steprange" a-b/n,    *)
(*   "list" the parseInt of its comma-separated items, "bad" anything else *)
Field(t, a, b, n, vals) == [t |-> t, a |-> a, b |-> b, n |-> n, vals |-> vals]

FStar == Field("star", 0, 0, 0, {})
FNum(a) == Field("num", a, 0, 0, {})
FRange(a, b) == Field("range", a, b, 0, {})
FStepStar(n) == Field("stepstar", 0, 0, n, {})
FStepRange(a, b, n) == Field("steprange", a, b, n, {})
FList(vals) == Field("list", 0, 0, 0, vals)
FBad == Field("bad", 0, 0, 0, {})

matchesCronField(field, value, min, max) ==
    CASE field.t = "star" -> TRUE
      [] field.t = "num" -> field.a = value
      [] field.t = "range" -> value >= field.a /\ value <= field.b
      [] field.t = "stepstar" ->
            \* value % 0 is NaN, which is not 0
            IF field.n = 0 THEN FALSE ELSE value % field.n = 0
      [] field.t = "steprange" ->
            IF value >= field.a /\ value <= field.b
            THEN (IF field.n = 0 THEN FALSE ELSE (value - field.a) % field.n = 0)
            ELSE FALSE   \* falls through to the list test: no comma, no match
      [] field.t = "list" -> value \in field.vals
      [] OTHER -> FALSE

maxIterations == 365 * 24 * 60

\* One pass of the body of the while loop of calculateNextCronTime on
\* s = [nextDate, found]; found is set by the return of line 676.
CronBody(parts, s) ==
    LET nextDate == s.nextDate IN
    IF s.found THEN s
    ELSE IF ~matchesCronField(parts[4], getMonth(nextDate) + 1, 1, 12)
         THEN [s EXCEPT !.nextDate =
                  setMinutes(setHours(setDate(setMonth(nextDate, getMonth(nextDate) + 1), 1), 0), 0)]
    ELSE IF ~matchesCronField(parts[3], getDate(nextDate), 1, 31)
         THEN [s EXCEPT !.nextDate =
                  setMinutes(setHours(setDate(nextDate, getDate(nextDate) + 1), 0), 0)]
    ELSE IF ~matchesCronField(parts[5], getDay(nextDate), 0, 6)
         THEN [s EXCEPT !.nextDate =
                  setMinutes(setHours(setDate(nextDate, getDate(nextDate) + 1), 0), 0)]
    ELSE IF ~matchesCronField(parts[2], getHours(nextDate), 0, 23)
         THEN [s EXCEPT !.nextDate = setMinutes(setHours(nextDate, getHours(nextDate) + 1), 0)]
    ELSE IF ~matchesCronField(parts[1], getMinutes(nextDate), 0, 59)
         THEN [s EXCEPT !.nextDate = setMinutes(nextDate, getMinutes(nextDate) + 1)]
    ELSE [s EXCEPT !.found = TRUE]

RECURSIVE CronSearch(_, _, _)
\* The while loop of calculateNextCronTime: at most n passes of its body.
\* The passes are split in two halves to keep the evaluation shallow.
CronSearch(parts, s, n) ==
    IF n = 0 \/ s.found THEN s
    ELSE IF n = 1 THEN CronBody(parts, s)
    ELSE LET half == CronSearch(parts, s, n \div 2)
         IN  CronSearch(parts, half, n - (n \div 2))

\* calculateNextCronTime without the step of line 628 that starts the search
\* one minute after the base
calculateNextCronTime_FromBase(baseDate, parts) ==
    IF Len(parts) # 5
    THEN setHours(baseDate, getHours(baseDate) + 1)
    ELSE LET r == CronSearch(parts,
                             [nextDate |-> setSeconds(baseDate, 0), found |-> FALSE],
                             maxIterations)
         IN  IF r.found THEN r.nextDate ELSE setHours(baseDate, getHours(baseDate) + 1)

calculateNextCronTime(baseDate, parts) ==
    IF Len(parts) # 5
    THEN setHours(baseDate, getHours(baseDate) + 1)
    ELSE LET start == setSeconds(baseDate, 0)
             r == CronSearch(parts,
                             [nextDate |-> setMinutes(start, getMinutes(start) + 1),
                              found |-> FALSE],
                             maxIterations)
         IN  IF r.found THEN r.nextDate ELSE setHours(baseDate, getHours(baseDate) + 1)

dayMap == [sun |-> 0, mon |-> 1, tue |-> 2, wed |-> 3, thu |-> 4, fri |-> 5, sat |-> 6]

daysToAdd_SameDayToday(targetDay, currentDay) == (targetDay - currentDay + 7) % 7

\* lines 575-576: next week if same day
daysToAdd(targetDay, currentDay) ==
    LET d == (targetDay - currentDay + 7) % 7 IN IF d = 0 THEN 7 ELSE d

calculateNextReminder(currentRemindAt, interval) ==
    LET baseDate == currentRemindAt IN
    IF interval.kind = "simple"
    THEN CASE interval.unit = "m" -> setMinutes(baseDate, getMinutes(baseDate) + interval.n)
           [] interval.unit = "h" -> setHours(baseDate, getHours(baseDate) + interval.n)
           [] interval.unit = "d" -> setDate(baseDate, getDate(baseDate) + interval.n)
    ELSE IF interval.kind = "weekly" /\ interval.unit \in DOMAIN dayMap
    THEN LET targetDay == dayMap[interval.unit]
             currentDay == getDay(baseDate)
         IN  setDate(baseDate, getDate(baseDate) + daysToAdd(targetDay, currentDay))
    ELSE IF interval.kind = "monthly"
    THEN LET next == setMonth(baseDate, getMonth(baseDate) + 1) IN
         IF interval.unit = "last"
         THEN LET prev == setDate(next, 0) IN setMonth(prev, getMonth(prev) + 1)
         ELSE LET lastDayOfMonth == DaysInMonth(getFullYear(next), getMonth(next))
              IN  setDate(next, IF interval.n < lastDayOfMonth THEN interval.n ELSE lastDayOfMonth)
    ELSE IF interval.kind = "cron"
    THEN calculateNextCronTime(baseDate, interval.cron)
    ELSE baseDate

-----------------------------------------------------------------------------
(* Task store (database.ts) and due-task scanner (checkDueTasks)           *)

TaskIds == 1..MaxTasks
NullTime == -1              \* snoozed_until IS NULL
FireCap == 2                \* fireCount saturates here
ScanInterval == 30          \* setInterval(checkDueTasks, 30000), in seconds

\* the wall clock when the model starts: 2024-01-31T09:00:00
Now0 == At(2024, 0, 31, 9, 0)

\* inputs of add-task / update-task / snooze-task
RemindChoices == {Now0 - SecPerHour, Now0 + ScanInterval}
RecChoices ==
    {NullRec, EmptyRec, SimpleRec(30, "m"), SimpleRec(0, "m"), OtherRec, MonthlyRec(31),
     CronRec(<<FStepStar(15), FStar, FStar, FStar, FStar>>)}
SnoozeChoices == {Now0 + ScanInterval}

Row(remindAt, completed, notified, rec, snoozedUntil) ==
    [remindAt |-> remindAt, completed |-> completed, notified |-> notified,
     recurringInterval |-> rec, snoozedUntil |-> snoozedUntil]

Bump(n) == IF n < FireCap THEN n + 1 ELSE FireCap

\* r.recurringInterval || null
RecOrNull(rec) == IF rec.kind = "empty" THEN NullRec ELSE rec

IsDueRow_IgnoreSnooze(row, t) ==
    /\ row.completed = FALSE
    /\ row.notified = FALSE
    /\ row.remindAt <= t

\* WHERE clause of getDueTasks
IsDueRow(row, t) ==
    /\ row.completed = FALSE
    /\ row.notified = FALSE
    /\ row.remindAt <= t
    /\ (row.snoozedUntil = NullTime \/ row.snoozedUntil <= t)

\* the rows getDueTasks may return: the due rows, ORDER BY remind_at ASC
getDueTasks(t) ==
    LET due == {id \in DOMAIN tasks : IsDueRow(tasks[id], t)}
    IN  {q \in [1..Cardinality(due) -> due] :
            /\ \A i, j \in DOMAIN q : i # j => q[i] # q[j]
            /\ \A i, j \in DOMAIN q : i < j => tasks[q[i]].remindAt <= tasks[q[j]].remindAt}

markTaskNotified_Skip(id) == tasks

markTaskNotified(id) ==
    IF id \in DOMAIN tasks THEN [tasks EXCEPT ![id].notified = TRUE] ELSE tasks

updateTaskRemindAt(id, remindAt) ==
    IF id \in DOMAIN tasks
    THEN [tasks EXCEPT ![id].remindAt = remindAt, ![id].notified = FALSE]
    ELSE tasks

updateTask_KeepNotified(id, remindAt, rec) ==
    IF id \in DOMAIN tasks
    THEN [tasks EXCEPT ![id].remindAt = remindAt, ![id].recurringInterval = rec]
    ELSE tasks

updateTask(id, remindAt, rec) ==
    IF id \in DOMAIN tasks
    THEN [tasks EXCEPT ![id].remindAt = remindAt, ![id].recurringInterval = rec,
                       ![id].notified = FALSE]
    ELSE tasks

\* The store is a file: a reminder may already be due when the app starts.
DueAtStart == <<Row(Now0 - SecPerHour, FALSE, FALSE, NullRec, NullTime)>>

ScanInit ==
    /\ tasks \in {<<>>, DueAtStart}
    /\ now = Now0
    /\ scanPc = "idle"
    /\ scanQueue = <<>>
    /\ scanStart = <<>>
    /\ fired = {}
    /\ fireCount = [id \in TaskIds |-> 0]
    /\ edited = {}
    /\ notifShown = FALSE

\* ipcMain.handle("add-task") -> Database.addTask
AddTask(id, remindAt, rec) ==
    /\ scanPc = "idle"
    /\ id \notin DOMAIN tasks
    /\ tasks' = [i \in DOMAIN tasks \cup {id} |->
                    IF i = id THEN Row(remindAt, FALSE, FALSE, rec, NullTime) ELSE tasks[i]]
    /\ fireCount' = [fireCount EXCEPT ![id] = 0]
    /\ edited' = {e \in edited : e[1] # id}
    /\ UNCHANGED <<now, scanPc, scanQueue, scanStart, fired, notifShown>>
    /\ ScanFrame

\* ipcMain.handle("update-task") -> Database.updateTask
UpdateTask(id, remindAt, rec) ==
    /\ scanPc = "idle"
    /\ id \in DOMAIN tasks
    /\ tasks' = updateTask(id, remindAt, rec)
    /\ fireCount' = [fireCount EXCEPT ![id] = 0]
    /\ edited' = {e \in edited : e[1] # id} \cup {<<id, tasks[id].notified>>}
    /\ UNCHANGED <<now, scanPc, scanQueue, scanStart, fired, notifShown>>
    /\ ScanFrame

\* ipcMain.handle("snooze-task") -> Database.snoozeTask
SnoozeTask(id, until) ==
    /\ scanPc = "idle"
    /\ id \in DOMAIN tasks
    /\ tasks' = [tasks EXCEPT ![id].snoozedUntil = until]
    /\ edited' = {e \in edited : e[1] # id}
    /\ UNCHANGED <<now, scanPc, scanQueue, scanStart, fired, fireCount, notifShown>>
    /\ ScanFrame

\* ipcMain.handle("clear-snooze") -> Database.clearSnooze
ClearSnooze(id) ==
    /\ scanPc = "idle"
    /\ id \in DOMAIN tasks
    /\ tasks[id].snoozedUntil # NullTime
    /\ tasks' = [tasks EXCEPT ![id].snoozedUntil = NullTime]
    /\ edited' = {e \in edited : e[1] # id}
    /\ UNCHANGED <<now, scanPc, scanQueue, scanStart, fired, fireCount, notifShown>>
    /\ ScanFrame

\* ipcMain.handle("complete-task") -> Database.completeTask
CompleteTask(id) ==
    /\ scanPc = "idle"
    /\ id \in DOMAIN tasks
    /\ tasks[id].completed = FALSE
    /\ tasks' = [tasks EXCEPT ![id].completed = TRUE]
    /\ edited' = {e \in edited : e[1] # id}
    /\ UNCHANGED <<now, scanPc, scanQueue, scanStart, fired, fireCount, notifShown>>
    /\ ScanFrame

\* ipcMain.handle("delete-task") -> Database.deleteTask
DeleteTask(id) ==
    /\ scanPc = "idle"
    /\ id \in DOMAIN tasks
    /\ tasks' = [i \in DOMAIN tasks \ {id} |-> tasks[i]]
    /\ fireCount' = [fireCount EXCEPT ![id] = 0]
    /\ edited' = {e \in edited : e[1] # id}
    /\ UNCHANGED <<now, scanPc, scanQueue, scanStart, fired, notifShown>>
    /\ ScanFrame

\* the wall clock moves on by one scan period
AdvanceTime ==
    /\ scanPc = "idle"
    /\ now < Now0 + MaxScanTime * ScanInterval
    /\ now' = now + ScanInterval
    /\ UNCHANGED <<tasks, scanPc, scanQueue, scanStart, fired, fireCount, edited, notifShown>>
    /\ ScanFrame

\* checkDueTasks, line 511: const dueTasks = database.getDueTasks()
ScanStart ==
    /\ scanPc = "idle"
    /\ \E q \in getDueTasks(now) :
          scanQueue' = [i \in DOMAIN q |->
                           [id |-> q[i], remindAt |-> tasks[q[i]].remindAt,
                            recurringInterval |-> RecOrNull(tasks[q[i]].recurringInterval)]]
    /\ scanPc' = "loop"
    /\ scanStart' = tasks
    /\ fired' = {}
    /\ UNCHANGED <<tasks, now, fireCount, edited, notifShown>>
    /\ ScanFrame

\* The store is written before notification.show() is reached.
ScanNotify_UpdateFirst ==
    /\ scanPc = "loop"
    /\ scanQueue # <<>>
    /\ LET task == Head(scanQueue) IN
          tasks' = IF task.recurringInterval.kind # "null"
                   THEN updateTaskRemindAt(task.id,
                            calculateNextReminder(task.remindAt, task.recurringInterval))
                   ELSE markTaskNotified(task.id)
    /\ scanPc' = "update"
    /\ UNCHANGED <<now, scanQueue, scanStart, fired, fireCount, edited, notifShown>>
    /\ ScanFrame

\* checkDueTasks, lines 512-528: notification.show() for the next due task
ScanNotify ==
    /\ scanPc = "loop"
    /\ scanQueue # <<>>
    /\ LET task == Head(scanQueue) IN
          /\ fired' = fired \cup {task.id}
          /\ fireCount' = IF task.recurringInterval.kind = "null"
                          THEN [fireCount EXCEPT ![task.id] = Bump(@)]
                          ELSE fireCount
    /\ scanPc' = "update"
    /\ notifShown' = TRUE
    /\ UNCHANGED <<tasks, now, scanQueue, scanStart, edited>>
    /\ ScanFrame

\* checkDueTasks, lines 531-538: advance a recurring task, mark a one-shot one
ScanUpdate ==
    /\ scanPc = "update"
    /\ LET task == Head(scanQueue) IN
          tasks' = IF task.recurringInterval.kind # "null"
                   THEN updateTaskRemindAt(task.id,
                            calculateNextReminder(task.remindAt, task.recurringInterval))
                   ELSE markTaskNotified(task.id)
    /\ scanQueue' = Tail(scanQueue)
    /\ scanPc' = "loop"
    /\ UNCHANGED <<now, scanStart, fired, fireCount, edited, notifShown>>
    /\ ScanFrame

\* checkDueTasks, line 539: the loop is over
ScanEnd ==
    /\ scanPc = "loop"
    /\ scanQueue = <<>>
    /\ scanPc' = "idle"
    /\ scanStart' = <<>>
    /\ fired' = {}
    /\ edited' = {}
    /\ UNCHANGED <<tasks, now, scanQueue, fireCount, notifShown>>
    /\ ScanFrame

\* The process dies inside checkDueTasks and the app is started again: the
\* store keeps what was written, the loop and its list of due tasks are gone.
Crash ==
    /\ scanPc # "idle"
    /\ scanPc' = "idle"
    /\ scanQueue' = <<>>
    /\ scanStart' = <<>>
    /\ fired' = {}
    /\ edited' = {}
    /\ UNCHANGED <<tasks, now, fireCount, notifShown>>
    /\ ScanFrame

\* The scanner with crashes.
CrashNext ==
    \/ \E id \in TaskIds, r \in RemindChoices, rec \in RecChoices : AddTask(id, r, rec)
    \/ AdvanceTime
    \/ ScanStart
    \/ ScanNotify
    \/ ScanUpdate
    \/ ScanEnd
    \/ Crash

ScanNext ==
    \/ \E id \in TaskIds, r \in RemindChoices, rec \in RecChoices : AddTask(id, r, rec)
    \/ \E id \in TaskIds, r \in RemindChoices, rec \in RecChoices : UpdateTask(id, r, rec)
    \/ \E id \in TaskIds, u \in SnoozeChoices : SnoozeTask(id, u)
    \/ \E id \in TaskIds : ClearSnooze(id)
    \/ \E id \in TaskIds : CompleteTask(id)
    \/ \E id \in TaskIds : DeleteTask(id)
    \/ AdvanceTime
    \/ ScanStart
    \/ ScanNotify
    \/ ScanUpdate
    \/ ScanEnd




-----------------------------------------------------------------------------
(* One call of calculateNextReminder, one call again on its result, and    *)
(* one call of matchesCronField, on inputs drawn from the sets below.      *)

IntervalAmounts == {0, 1, 30, 90}
MonthDays == 1..31
FieldSteps == 1..3

CalcBases ==
    {At(2024, 0, 31, 9, 0),          \* Wednesday 2024-01-31T09:00:00
     At(2024, 0, 15, 9, 7) + 30,     \* Monday    2024-01-15T09:07:30
     At(2024, 1, 29, 23, 59),        \* Thursday  2024-02-29T23:59:00
     At(2024, 2, 1, 9, 0),           \* Friday    2024-03-01T09:00:00
     At(2024, 3, 30, 12, 0),         \* Tuesday   2024-04-30T12:00:00
     At(2024, 6, 14, 0, 0),          \* Sunday    2024-07-14T00:00:00
     At(2024, 11, 28, 23, 59)}       \* Saturday  2024-12-28T23:59:00

\* "*/15 * * * *", "0 9 * * *", "0 0 * 2 *", "0 0 29 2 *", "30 9 * * 1-5",
\* "0,30 10-12/2 * * *", and "0 9 * *" (four fields)
CronChoices ==
    {<<FStepStar(15), FStar, FStar, FStar, FStar>>,
     <<FNum(0), FNum(9), FStar, FStar, FStar>>,
     <<FNum(0), FNum(0), FStar, FNum(2), FStar>>,
     <<FNum(0), FNum(0), FNum(29), FNum(2), FStar>>,
     <<FNum(30), FNum(9), FStar, FStar, FRange(1, 5)>>,
     <<FList({0, 30}), FStepRange(10, 12, 2), FStar, FStar, FStar>>,
     <<FNum(0), FNum(9), FStar, FStar>>}

\* "61 * * * *": no minute matches, the loop runs out of iterations
ExhaustCron == <<FNum(61), FStar, FStar, FStar, FStar>>

CalcSpecs ==
    {SimpleRec(n, u) : n \in IntervalAmounts, u \in {"m", "h", "d"}}
      \cup {WeeklyRec(a) : a \in DOMAIN dayMap \cup {"xyz"}}
      \cup {MonthlyRec(k) : k \in MonthDays}
      \cup {MonthlyLastRec, OtherRec}
      \cup {CronRec(c) : c \in CronChoices}

CalcInputs == (CalcBases \X CalcSpecs) \cup {<<Now0, CronRec(ExhaustCron)>>}

\* minute, hour, day of month, month, day of week with their <<min, max>>
FieldRanges == {<<0, 59>>, <<0, 23>>, <<1, 31>>, <<1, 12>>, <<0, 6>>}

FieldChoices ==
    {FStar, FNum(5), FRange(2, 4), FList({1, 3, 5}), FBad, FStepStar(0)}
      \cup {FStepStar(n) : n \in FieldSteps}
      \cup {FStepRange(a, a + 6, n) : a \in {0, 1, 5}, n \in FieldSteps}

CalcInit ==
    \/ /\ \E input \in CalcInputs :
              /\ calcBase = input[1]
              /\ calcSpec = input[2]
       /\ calcOut = NullTime
       /\ calcOut2 = NullTime
       /\ mField = FStar
       /\ mValue = 0
       /\ mRange = <<>>
       /\ mOut = "none"
    \/ /\ calcBase = NullTime
       /\ calcSpec = NullRec
       /\ calcOut = NullTime
       /\ calcOut2 = NullTime
       /\ mField \in FieldChoices
       /\ mRange \in FieldRanges
       /\ mValue \in mRange[1]..mRange[2]
       /\ mOut = "none"

\* checkDueTasks, line 533: calculateNextReminder(task.remindAt, task.recurringInterval)
Calculate ==
    /\ calcBase # NullTime
    /\ calcOut = NullTime
    /\ calcOut' = calculateNextReminder(calcBase, calcSpec)
    /\ UNCHANGED <<calcBase, calcSpec, calcOut2, mField, mValue, mRange, mOut>>
    /\ CalcFrame

\* The next fire of the same task: the calculator is called on its own result.
Requery ==
    /\ calcOut # NullTime
    /\ calcOut2 = NullTime
    /\ calcOut2' = calculateNextReminder(calcOut, calcSpec)
    /\ UNCHANGED <<calcBase, calcSpec, calcOut, mField, mValue, mRange, mOut>>
    /\ CalcFrame

\* matchesCronField(field, value, min, max)
MatchField ==
    /\ mRange # <<>>
    /\ mOut = "none"
    /\ mOut' = IF matchesCronField(mField, mValue, mRange[1], mRange[2])
               THEN "match" ELSE "no-match"
    /\ UNCHANGED <<calcBase, calcSpec, calcOut, calcOut2, mField, mValue, mRange>>
    /\ CalcFrame

CalcNext ==
    \/ Calculate
    \/ Requery
    \/ MatchField

-----------------------------------------------------------------------------
(* External clipboard and ClipboardWatcher (clipboard.ts), and the         *)
(* copy-to-clipboard handler (index.ts)                                    *)

\* an image is its size and its data URL, split at the first 100 characters
Image(size, head, tail) == [size |-> size, head |-> head, tail |-> tail]
NoImage == Image("0x0", "", "")
Images == {Image("1x1", "data:a", "1"), Image("2x2", "data:b", "2")}
Texts == {"x", "y"}

Content(img, txt) == [img |-> img, txt |-> txt]
Contents == {Content(i, t) : i \in Images \cup {NoImage}, t \in Texts \cup {""}}

isEmpty(image) == image = NoImage
NoHash == <<>>
getImageHash(image) == <<image.size, image.head>>

\* clipboard.writeText / clipboard.writeImage replace the whole clipboard
writeText(text) == Content(NoImage, text)
writeImage(image) == Content(image, "")

\* the argument of copy-to-clipboard: a string, or {type: "image", imageData}
TextData(text) == [type |-> "text", text |-> text, imageData |-> NoImage]
ImageData(image) == [type |-> "image", text |-> "", imageData |-> image]
CopyData == {TextData(t) : t \in Texts \cup {""}} \cup {ImageData(i) : i \in Images \cup {NoImage}}

NoEvent == [type |-> "none", content |-> "", imageData |-> NoImage]
TextEvent(content) == [type |-> "text", content |-> content, imageData |-> NoImage]
ImageEvent(image) == [type |-> "image", content |-> image.size, imageData |-> image]

NoRead == [kind |-> "none", c |-> Content(NoImage, ""), n |-> 0]
\* the record of reads after one more read of content c
Read(reads, c) ==
    LET n == IF reads.n < ReadCap THEN reads.n + 1 ELSE ReadCap IN
    IF reads.kind = "none" THEN [kind |-> "same", c |-> c, n |-> n]
    ELSE IF reads.kind = "same" /\ reads.c = c THEN [reads EXCEPT !.n = n]
    ELSE [kind |-> "mixed", c |-> Content(NoImage, ""), n |-> n]

TickBody_NoTextUpdate(c, lc, lih, ign) ==
    LET image == c.img
        hasImage == ~isEmpty(image)
        content == c.txt
    IN  IF ign
        THEN [ignoreNextChange |-> FALSE,
              lastImageHash |-> IF hasImage THEN getImageHash(image) ELSE lih,
              lastContent |-> content,
              event |-> NoEvent]
        ELSE IF hasImage /\ getImageHash(image) # lih
        THEN [ignoreNextChange |-> ign,
              lastImageHash |-> getImageHash(image),
              lastContent |-> content,
              event |-> ImageEvent(image)]
        ELSE IF content # "" /\ content # lc
        THEN [ignoreNextChange |-> ign,
              lastImageHash |-> lih,
              lastContent |-> lc,
              event |-> TextEvent(content)]
        ELSE [ignoreNextChange |-> ign, lastImageHash |-> lih, lastContent |-> lc,
              event |-> NoEvent]

\* the body of the interval callback of start(), for an unpaused watcher
TickBody(c, lc, lih, ign) ==
    LET image == c.img
        hasImage == ~isEmpty(image)
        content == c.txt
    IN  IF ign
        THEN [ignoreNextChange |-> FALSE,
              lastImageHash |-> IF hasImage THEN getImageHash(image) ELSE lih,
              lastContent |-> content,
              event |-> NoEvent]
        ELSE IF hasImage /\ getImageHash(image) # lih
        THEN [ignoreNextChange |-> ign,
              lastImageHash |-> getImageHash(image),
              lastContent |-> content,
              event |-> ImageEvent(image)]
        ELSE IF content # "" /\ content # lc
        THEN [ignoreNextChange |-> ign,
              lastImageHash |-> lih,
              lastContent |-> content,
              event |-> TextEvent(content)]
        ELSE [ignoreNextChange |-> ign, lastImageHash |-> lih, lastContent |-> lc,
              event |-> NoEvent]

\* resetTracking() in place of the re-read
ResumeSync_Reset(c) == [lastContent |-> "", lastImageHash |-> NoHash]

\* the callback of the timer set by resume()
ResumeSync(c) ==
    [lastContent |-> c.txt,
     lastImageHash |-> IF ~isEmpty(c.img) THEN getImageHash(c.img) ELSE NoHash]

WatchInit ==
    /\ clip \in Contents
    /\ lastContent = clip.txt
    /\ lastImageHash = (IF ~isEmpty(clip.img) THEN getImageHash(clip.img) ELSE NoHash)
    /\ paused = FALSE
    /\ resumeTimeout = FALSE
    /\ ignoreNextChange = FALSE
    /\ awaiting = 0
    /\ lastEvent = NoEvent
    /\ emitCount = 0
    /\ held = NoEvent
    /\ pollReads = NoRead
    /\ allReads = NoRead
    /\ uncaught = "none"
    /\ pendingUser = FALSE

\* a copy-to-clipboard request is under way, or its suppressed tick has not run
InCopy == awaiting > 0 \/ ignoreNextChange

\* the event is a capture of the content c
CapturesContent(event, c) ==
    \/ event.type = "image" /\ event.imageData = c.img
    \/ event.type = "text" /\ event.content = c.txt

\* the user (or another program) puts new content on the clipboard
UserCopy(c) ==
    /\ c # clip
    /\ clip' = c
    /\ held' = NoEvent
    /\ lastEvent' = NoEvent
    /\ pendingUser' = (InCopy /\ c # Content(NoImage, ""))
    /\ UNCHANGED <<lastContent, lastImageHash, paused, resumeTimeout, ignoreNextChange,
                   awaiting, emitCount, pollReads, allReads, uncaught>>
    /\ WatchFrame

\* the interval callback of ClipboardWatcher.start()
Tick ==
    /\ WatchFrame
    /\ IF paused
       THEN /\ lastEvent' = NoEvent
            /\ UNCHANGED <<clip, lastContent, lastImageHash, paused, resumeTimeout,
                           ignoreNextChange, awaiting, emitCount, held, pollReads, allReads,
                           uncaught, pendingUser>>
       ELSE LET r == TickBody(clip, lastContent, lastImageHash, ignoreNextChange) IN
            /\ ignoreNextChange' = r.ignoreNextChange
            /\ lastImageHash' = r.lastImageHash
            /\ lastContent' = r.lastContent
            /\ lastEvent' = r.event
            /\ emitCount' = IF r.event # NoEvent /\ emitCount < EmitCap
                            THEN emitCount + 1 ELSE emitCount
            /\ pollReads' = Read(pollReads, clip)
            /\ allReads' = Read(allReads, clip)
            /\ pendingUser' = (pendingUser /\ ~CapturesContent(r.event, clip))
            /\ UNCHANGED <<clip, paused, resumeTimeout, awaiting, held, uncaught>>

\* copy-to-clipboard, lines 333-351: pause, write, update the tracker, wait
CopyStart(data) ==
    /\ awaiting < MaxInFlight
    /\ paused' = TRUE
    /\ resumeTimeout' = FALSE
    /\ IF data.type = "image" /\ ~isEmpty(data.imageData)
       THEN /\ clip' = writeImage(data.imageData)
            /\ lastImageHash' = getImageHash(data.imageData)
            /\ held' = ImageEvent(data.imageData)
            /\ UNCHANGED lastContent
       ELSE /\ clip' = writeText(data.text)
            /\ lastContent' = data.text
            /\ held' = TextEvent(data.text)
            /\ UNCHANGED lastImageHash
    /\ awaiting' = awaiting + 1
    /\ lastEvent' = NoEvent
    /\ pendingUser' = FALSE
    /\ UNCHANGED <<ignoreNextChange, emitCount, pollReads, allReads, uncaught>>
    /\ WatchFrame

\* copy-to-clipboard whose catch block does not call resume()
CopyFail_NoResume ==
    /\ paused' = TRUE
    /\ resumeTimeout' = FALSE
    /\ lastEvent' = NoEvent
    /\ UNCHANGED <<clip, lastContent, lastImageHash, ignoreNextChange, awaiting,
                   emitCount, held, pollReads, allReads, uncaught, pendingUser>>
    /\ WatchFrame

\* copy-to-clipboard, lines 333-341 and 361-364: the write throws
CopyFail ==
    /\ paused' = TRUE
    /\ resumeTimeout' = TRUE
    /\ lastEvent' = NoEvent
    /\ UNCHANGED <<clip, lastContent, lastImageHash, ignoreNextChange, awaiting,
                   emitCount, held, pollReads, allReads, uncaught, pendingUser>>
    /\ WatchFrame

\* copy-to-clipboard, lines 353-360: after the wait, ignoreNext() and resume()
CopyFinish ==
    /\ awaiting > 0
    /\ awaiting' = awaiting - 1
    /\ ignoreNextChange' = TRUE
    /\ resumeTimeout' = TRUE
    /\ lastEvent' = NoEvent
    /\ UNCHANGED <<clip, lastContent, lastImageHash, paused, emitCount, held,
                   pollReads, allReads, uncaught, pendingUser>>
    /\ WatchFrame

\* the timer of resume() fires
ResumeTimer ==
    /\ resumeTimeout
    /\ paused' = FALSE
    /\ lastContent' = ResumeSync(clip).lastContent
    /\ lastImageHash' = ResumeSync(clip).lastImageHash
    /\ resumeTimeout' = FALSE
    /\ allReads' = Read(allReads, clip)
    /\ lastEvent' = NoEvent
    /\ UNCHANGED <<clip, ignoreNextChange, awaiting, emitCount, held, pollReads,
                   uncaught, pendingUser>>
    /\ WatchFrame

WatchNext ==
    \/ \E c \in Contents : UserCopy(c)
    \/ Tick
    \/ \E data \in CopyData : CopyStart(data)
    \/ CopyFail
    \/ CopyFinish
    \/ ResumeTimer

\* The interval callback when the call of this.onClip (line 65 or 80) throws:
\* the assignments before the call are done, those after it are not, and the
\* exception leaves the callback, which has no try block.
TickEmitThrows ==
    /\ ~paused
    /\ LET r == TickBody(clip, lastContent, lastImageHash, ignoreNextChange) IN
       /\ r.event # NoEvent
       /\ lastImageHash' = r.lastImageHash
       /\ lastContent' = IF r.event.type = "image" THEN lastContent ELSE r.lastContent
       /\ lastEvent' = r.event
       /\ emitCount' = IF emitCount < EmitCap THEN emitCount + 1 ELSE emitCount
    /\ uncaught' = "onClip"
    /\ pollReads' = Read(pollReads, clip)
    /\ allReads' = Read(allReads, clip)
    /\ UNCHANGED <<clip, paused, resumeTimeout, ignoreNextChange, awaiting, held,
                   pendingUser>>
    /\ WatchFrame

\* The interval callback when a read of the clipboard throws: readImage at
\* line 45, or readText at line 54, 71 or 77, whichever the tick reaches.
TickReadThrows(call) ==
    /\ ~paused
    /\ uncaught' = "read"
    /\ IF call = "readImage"
       THEN /\ lastEvent' = NoEvent
            /\ UNCHANGED <<lastImageHash, ignoreNextChange, emitCount>>
       ELSE LET image == clip.img
                hasImage == ~isEmpty(image)
            IN  IF ignoreNextChange
                THEN /\ ignoreNextChange' = FALSE
                     /\ lastImageHash' = IF hasImage THEN getImageHash(image)
                                         ELSE lastImageHash
                     /\ lastEvent' = NoEvent
                     /\ UNCHANGED emitCount
                ELSE IF hasImage /\ getImageHash(image) # lastImageHash
                THEN /\ lastImageHash' = getImageHash(image)
                     /\ lastEvent' = ImageEvent(image)
                     /\ emitCount' = IF emitCount < EmitCap THEN emitCount + 1
                                     ELSE emitCount
                     /\ UNCHANGED ignoreNextChange
                ELSE /\ lastEvent' = NoEvent
                     /\ UNCHANGED <<lastImageHash, ignoreNextChange, emitCount>>
    /\ UNCHANGED <<clip, lastContent, paused, resumeTimeout, awaiting, held, pollReads,
                   allReads, pendingUser>>
    /\ WatchFrame

WatchFailNext ==
    \/ \E c \in Contents : UserCopy(c)
    \/ Tick
    \/ TickEmitThrows
    \/ \E call \in {"readImage", "readText"} : TickReadThrows(call)

-----------------------------------------------------------------------------
(* Clip store (database.ts, table clips) and the maxClips setting.  The    *)
(* rows are kept in the order of created_at, oldest first; every insert    *)
(* gets a later created_at than the rows before it.                        *)

ClipRow(type, content, imageData) == [type |-> type, content |-> content, imageData |-> imageData]

\* the events the watcher passes to onClip
ClipEvents == {TextEvent(t) : t \in Texts} \cup {ImageEvent(i) : i \in Images}

\* Database.addClip(content, maxClips, type, imageData), on the rows of the table
addClip(rows, content, max, type, imageData) ==
    LET inserted == Append(rows, ClipRow(type, content, imageData))
        count == Len(inserted)
    IN  IF rows # <<>> /\ rows[Len(rows)].type = type
           /\ (IF type = "image" THEN rows[Len(rows)].imageData = imageData
               ELSE rows[Len(rows)].content = content)
        THEN rows
        ELSE IF count > max THEN SubSeq(inserted, count - max + 1, count) ELSE inserted

\* Database.deleteClip(id), for the id of the i-th row
deleteClip(rows, i) == [j \in 1..(Len(rows) - 1) |-> IF j < i THEN rows[j] ELSE rows[j + 1]]

StoreInit ==
    /\ clips = <<>>
    /\ maxClips \in 1..MaxClipsSetting

\* the callback given to the ClipboardWatcher (index.ts:741-757)
OnClip(event) ==
    /\ clips' = IF event.type = "image" /\ ~isEmpty(event.imageData)
                THEN addClip(clips, event.content, maxClips, "image", event.imageData)
                ELSE addClip(clips, event.content, maxClips, "text", NoImage)
    /\ UNCHANGED maxClips
    /\ StoreFrame

\* ipcMain.handle("delete-clip")
DeleteClip(i) ==
    /\ i \in DOMAIN clips
    /\ clips' = deleteClip(clips, i)
    /\ UNCHANGED maxClips
    /\ StoreFrame

\* ipcMain.handle("pin-clip"): saveScript writes the table scripts, then
\* deleteClip removes the clip
PinClip(i) ==
    /\ i \in DOMAIN clips
    /\ clips' = deleteClip(clips, i)
    /\ UNCHANGED maxClips
    /\ StoreFrame

\* ipcMain.handle("clear-clips")
ClearClips ==
    /\ clips # <<>>
    /\ clips' = <<>>
    /\ UNCHANGED maxClips
    /\ StoreFrame

\* ipcMain.handle("update-settings") with newSettings.maxClips = n; 0 is falsy
UpdateSettings(n) ==
    /\ maxClips' = IF n # 0 THEN n ELSE maxClips
    /\ UNCHANGED clips
    /\ StoreFrame

StoreNext ==
    \/ \E event \in ClipEvents : OnClip(event)
    \/ \E i \in 1..MaxClipsSetting : DeleteClip(i)
    \/ \E i \in 1..MaxClipsSetting : PinClip(i)
    \/ ClearClips
    \/ \E n \in 0..MaxClipsSetting : UpdateSettings(n)

-----------------------------------------------------------------------------
(* Main window and toggle machine (index.ts).  Time is counted in units of *)
(* 10 ms.  A timer is a record [kind, rem]: rem units remain until its     *)
(* callback runs.  A due timer runs before time advances; callbacks and    *)
(* events due at the same instant interleave in any order.  Two pending    *)
(* timers with the same callback and the same due time are one element.    *)
(* The 'hide' event of the window is emitted inside hide(), and only when  *)
(* the window was visible.  The window is frameless and never minimized.   *)

TimeUnitMs == 10
DebounceWindow == 20      \* blur handler: timeSinceLastToggle < 200
RecheckDelay == 5         \* hide path: setTimeout(..., 50)
ToggleResetDelay == 50    \* show path: setTimeout(..., 500)
PollDelay == 3            \* setTimeout(checkReady, 30)
SettleDelay == 20         \* setTimeout(..., 200) before the delayed show
DomReadyDelay == 15       \* setTimeout(markContentReady, 150)
FinishLoadDelay == 20     \* setTimeout(markContentReady, 200)
AgeCap == ToggleResetDelay + 1

Timer(kind, rem) == [kind |-> kind, rem |-> rem]
NoTimer == Timer("none", 0)
FiredTimer == Timer("fired", 0)   \* a handle whose timer has already run

\* webContents.isLoading()
isLoading == pageState \in {"loading", "dom"}

\* The part of the state the window operations act on.
Win == [visible |-> visible, isContentReady |-> isContentReady,
        isShowingWindow |-> isShowingWindow, showWindowTimeout |-> showWindowTimeout,
        readyTimers |-> readyTimers, out |-> "none"]

SetWin(w) ==
    /\ visible' = w.visible
    /\ isContentReady' = w.isContentReady
    /\ isShowingWindow' = w.isShowingWindow
    /\ showWindowTimeout' = w.showWindowTimeout
    /\ readyTimers' = w.readyTimers
    /\ toggleOut' = w.out
    /\ rehidden' = IF w.visible THEN FALSE ELSE (visible \/ rehidden)

\* if (showWindowTimeout) { clearTimeout(showWindowTimeout); showWindowTimeout = null; }
clearShowTimeout(w) ==
    [w EXCEPT !.readyTimers = w.readyTimers \ {w.showWindowTimeout},
              !.showWindowTimeout = NoTimer]

\* mainWindow.on("hide")
onHide(w) ==
    [clearShowTimeout([w EXCEPT !.isContentReady = FALSE, !.isShowingWindow = FALSE])
        EXCEPT !.out = "window-hidden"]

\* mainWindow.hide()
hide(w) == IF w.visible THEN onHide([w EXCEPT !.visible = FALSE]) ELSE w

\* mainWindow.show(); the 'show' handler only verifies the shortcut
show(w) == [w EXCEPT !.visible = TRUE]

\* show(); moveTop(); focus(); send("window-shown"); isShowingWindow = false
showAndAnnounce(w) ==
    [show(w) EXCEPT !.out = "window-shown", !.isShowingWindow = FALSE]

\* showWindowTimeout = setTimeout(callback, delay)
setShowTimeout(w, kind, delay) ==
    [w EXCEPT !.showWindowTimeout = Timer(kind, delay),
              !.readyTimers = w.readyTimers \cup {Timer(kind, delay)}]

\* Hide path of the hotkey without its clearTimeout.
cancelPendingShow_KeepTimer(w) ==
    [w EXCEPT !.isShowingWindow = FALSE, !.showWindowTimeout = NoTimer]

\* Hotkey callback, hide path: cancel any pending show operation
cancelPendingShow(w) ==
    [clearShowTimeout(w) EXCEPT !.isShowingWindow = FALSE]

\* checkReady
checkReady(w) ==
    IF ~w.isShowingWindow THEN w
    ELSE IF isLoading THEN setShowTimeout(w, "poll", PollDelay)
    ELSE setShowTimeout(w, "settle", SettleDelay)

\* showWindowWhenReady, called with isShowingWindow just set
showWindowWhenReady(w) ==
    IF ~w.isShowingWindow THEN w
    ELSE IF w.isContentReady /\ ~isLoading THEN showAndAnnounce(w)
    ELSE IF ~isLoading THEN setShowTimeout(w, "settle", SettleDelay)
    ELSE checkReady(w)

\* Callback of the 200 ms timer: mark as ready and show
settleCallback(w) ==
    IF w.isShowingWindow
    THEN [showAndAnnounce([w EXCEPT !.isContentReady = TRUE])
            EXCEPT !.showWindowTimeout = NoTimer]
    ELSE w

\* A handle keeps referring to its timer after the timer has run.
Ran(w, t) ==
    [w EXCEPT !.readyTimers = w.readyTimers \ {t},
              !.showWindowTimeout = IF w.showWindowTimeout = t THEN FiredTimer
                                    ELSE w.showWindowTimeout]

\* Blur handler that looks at isToggling only.
blurIgnored_NoDebounce(toggling, age) == toggling

\* Blur handler whose window includes its end.
blurIgnored_Inclusive(toggling, age) == toggling \/ age <= DebounceWindow

\* mainWindow.on("blur"): if (isToggling || timeSinceLastToggle < 200) return
blurIgnored(toggling, age) == toggling \/ age < DebounceWindow

TogInit ==
    /\ visible = FALSE
    /\ pageState = "loading"
    /\ isContentReady = FALSE
    /\ isShowingWindow = FALSE
    /\ isToggling = FALSE
    /\ sinceToggle = AgeCap
    /\ showWindowTimeout = NoTimer
    /\ readyTimers = {}
    /\ toggleTimers = {}
    /\ loadTimers = {}
    /\ toggleOut = "none"
    /\ cancelled = FALSE
    /\ rehidden = FALSE

\* The global shortcut fires.  The calls that position the window are taken
\* not to throw.
Hotkey ==
    /\ Cardinality(toggleTimers) < MaxToggleTimers
    /\ sinceToggle' = 0
    /\ isToggling' = TRUE
    /\ IF visible \/ isShowingWindow
       THEN /\ SetWin(hide(cancelPendingShow(Win)))
            /\ toggleTimers' = toggleTimers \cup {Timer("recheck", RecheckDelay)}
            /\ cancelled' = (isShowingWindow /\ ~visible)
       ELSE /\ SetWin(showWindowWhenReady([Win EXCEPT !.isShowingWindow = TRUE]))
            /\ toggleTimers' = toggleTimers \cup {Timer("reset", ToggleResetDelay)}
            /\ cancelled' = FALSE
    /\ UNCHANGED <<pageState, loadTimers>>
    /\ TogFrame

\* A timer set by checkReady or showWindowWhenReady runs.
ReadyTimerFires(t) ==
    /\ t \in readyTimers
    /\ t.rem = 0
    /\ SetWin(IF t.kind = "poll" THEN checkReady(Ran(Win, t))
              ELSE settleCallback(Ran(Win, t)))
    /\ UNCHANGED <<pageState, isToggling, sinceToggle, toggleTimers, loadTimers, cancelled>>
    /\ TogFrame

\* A timer that resets isToggling runs; the one of the hide path hides again.
ToggleTimerFires(t) ==
    /\ t \in toggleTimers
    /\ t.rem = 0
    /\ toggleTimers' = toggleTimers \ {t}
    /\ SetWin(IF t.kind = "recheck" THEN hide(Win) ELSE Win)
    /\ isToggling' = FALSE
    /\ UNCHANGED <<pageState, sinceToggle, loadTimers, cancelled>>
    /\ TogFrame

\* The window loses focus.
Blur ==
    /\ visible
    /\ IF blurIgnored(isToggling, sinceToggle)
       THEN SetWin([Win EXCEPT !.out = "blur-ignored"])
       ELSE SetWin([hide(Win) EXCEPT !.out = "blur-hidden"])
    /\ UNCHANGED <<pageState, isToggling, sinceToggle, toggleTimers, loadTimers, cancelled>>
    /\ TogFrame

\* ipcMain "hide-window": the renderer asks to hide the window.
HideWindow ==
    /\ visible
    /\ SetWin(hide(Win))
    /\ UNCHANGED <<pageState, isToggling, sinceToggle, toggleTimers, loadTimers, cancelled>>
    /\ TogFrame

\* The user clicks a notification of checkDueTasks.
NotificationClick ==
    /\ notifShown
    /\ SetWin([show(Win) EXCEPT !.out = "navigate-to-task"])
    /\ cancelled' = FALSE
    /\ UNCHANGED <<pageState, isToggling, sinceToggle, toggleTimers, loadTimers>>
    /\ TogFrame

\* webContents 'dom-ready' (once)
DomReady ==
    /\ pageState = "loading"
    /\ pageState' = "dom"
    /\ loadTimers' = loadTimers \cup {DomReadyDelay}
    /\ toggleOut' = "none"
    /\ UNCHANGED <<visible, isContentReady, isShowingWindow, isToggling, sinceToggle,
                   showWindowTimeout, readyTimers, toggleTimers, cancelled,
                   rehidden>>
    /\ TogFrame

\* webContents 'did-finish-load' (once)
DidFinishLoad ==
    /\ pageState = "dom"
    /\ pageState' = "loaded"
    /\ loadTimers' = loadTimers \cup {FinishLoadDelay}
    /\ toggleOut' = "none"
    /\ UNCHANGED <<visible, isContentReady, isShowingWindow, isToggling, sinceToggle,
                   showWindowTimeout, readyTimers, toggleTimers, cancelled,
                   rehidden>>
    /\ TogFrame

\* webContents 'did-fail-load'
DidFailLoad ==
    /\ isLoading
    /\ pageState' = "failed"
    /\ isContentReady' = FALSE
    /\ toggleOut' = "none"
    /\ UNCHANGED <<visible, isShowingWindow, isToggling, sinceToggle, showWindowTimeout,
                   readyTimers, toggleTimers, loadTimers, cancelled,
                   rehidden>>
    /\ TogFrame

\* setTimeout(markContentReady, ...) runs
MarkContentReady ==
    /\ 0 \in loadTimers
    /\ loadTimers' = loadTimers \ {0}
    /\ isContentReady' = TRUE
    /\ toggleOut' = "none"
    /\ UNCHANGED <<visible, pageState, isShowingWindow, isToggling, sinceToggle,
                   showWindowTimeout, readyTimers, toggleTimers, cancelled,
                   rehidden>>
    /\ TogFrame

Elapsed(t) == [t EXCEPT !.rem = t.rem - 1]

\* 10 ms pass: no timer is due, and some timer or the debounce window is running.
Elapse ==
    /\ \A t \in readyTimers \cup toggleTimers : t.rem > 0
    /\ 0 \notin loadTimers
    /\ \/ readyTimers \cup toggleTimers # {}
       \/ loadTimers # {}
       \/ sinceToggle < AgeCap
    /\ readyTimers' = {Elapsed(t) : t \in readyTimers}
    /\ toggleTimers' = {Elapsed(t) : t \in toggleTimers}
    /\ loadTimers' = {d - 1 : d \in loadTimers}
    /\ showWindowTimeout' = IF showWindowTimeout \in readyTimers
                            THEN Elapsed(showWindowTimeout) ELSE showWindowTimeout
    /\ sinceToggle' = IF sinceToggle < AgeCap THEN sinceToggle + 1 ELSE AgeCap
    /\ toggleOut' = "none"
    /\ UNCHANGED <<visible, pageState, isContentReady, isShowingWindow, isToggling, cancelled,
                   rehidden>>
    /\ TogFrame

\* The state some time after the start: the load of the page is over and
\* the timers of markContentReady have run.
TogLoaded ==
    /\ visible = FALSE
    /\ pageState = "loaded"
    /\ isContentReady = TRUE
    /\ isShowingWindow = FALSE
    /\ isToggling = FALSE
    /\ sinceToggle = AgeCap
    /\ showWindowTimeout = NoTimer
    /\ readyTimers = {}
    /\ toggleTimers = {}
    /\ loadTimers = {}
    /\ toggleOut = "none"
    /\ cancelled = FALSE
    /\ rehidden = FALSE

\* The toggle machine while the page loads.
StartupNext ==
    \/ Hotkey
    \/ \E t \in readyTimers : ReadyTimerFires(t)
    \/ \E t \in toggleTimers : ToggleTimerFires(t)
    \/ Blur
    \/ HideWindow
    \/ DomReady
    \/ DidFinishLoad
    \/ DidFailLoad
    \/ MarkContentReady
    \/ Elapse

\* The toggle machine once the page is loaded, with the scan and its notifications.
ToggleNext ==
    \/ Hotkey
    \/ \E t \in readyTimers : ReadyTimerFires(t)
    \/ \E t \in toggleTimers : ToggleTimerFires(t)
    \/ Blur
    \/ HideWindow
    \/ NotificationClick
    \/ Elapse
    \/ ScanStart
    \/ ScanNotify
    \/ ScanUpdate
    \/ ScanEnd

-----------------------------------------------------------------------------
(* Claims about the due-task scanner                                       *)

IsOneShot(row) == RecOrNull(row.recurringInterval).kind = "null"

\* C1: a one-shot task (no recurrence) that is not edited is notified at most
\* once however often the scan runs: once a scan has fired it and set
\* notified, it has exactly one notification and no later scan adds another.
C1_OneShotFiresOnce ==
    \A id \in DOMAIN tasks :
        IsOneShot(tasks[id]) =>
            /\ fireCount[id] <= 1
            /\ tasks[id].notified => fireCount[id] = 1

\* a later scan has run to its end over a one-shot task that an earlier scan
\* fired: the task is due, was notified when the scan began, and was not fired
C1_Witness ==
    /\ scanPc = "loop"
    /\ scanQueue = <<>>
    /\ \E id \in DOMAIN scanStart :
          /\ IsOneShot(scanStart[id])
          /\ scanStart[id].notified
          /\ scanStart[id].completed = FALSE
          /\ scanStart[id].snoozedUntil = NullTime
          /\ scanStart[id].remindAt <= now
          /\ fireCount[id] = 1
          /\ id \notin fired

\* C2: whenever the scanner fires a task whose recurringInterval is set, the
\* stored remindAt after the fire is strictly greater than before it and
\* notified is false.
C2_RecurringAdvances ==
    [][\A id \in DOMAIN tasks :
          (/\ scanPc = "update"
           /\ Head(scanQueue).id = id
           /\ tasks[id].recurringInterval.kind \notin {"null", "empty"})
          => (/\ tasks'[id].remindAt > tasks[id].remindAt
              /\ tasks'[id].notified = FALSE)]_vars

\* C9 as claimed: after an update-task the task has notified = false, and if
\* its new remindAt is due the next scan fires it.
C9_EditedDueIsFired ==
    /\ scanPc = "idle" => \A e \in edited : tasks[e[1]].notified = FALSE
    /\ (scanPc = "loop" /\ scanQueue = <<>>) =>
          \A e \in edited : scanStart[e[1]].remindAt <= now => e[1] \in fired

\* C9, amended: after an update-task the task has notified = false whatever
\* it was before, and if its new remindAt is due the next scan fires it
\* unless the task is completed or still snoozed.
C9_EditResetsNotified ==
    /\ scanPc = "idle" => \A e \in edited : tasks[e[1]].notified = FALSE
    /\ (scanPc = "loop" /\ scanQueue = <<>>) =>
          \A e \in edited :
              (/\ scanStart[e[1]].remindAt <= now
               /\ scanStart[e[1]].completed = FALSE
               /\ (scanStart[e[1]].snoozedUntil = NullTime \/ scanStart[e[1]].snoozedUntil <= now))
              => e[1] \in fired

\* a task that was notified when it was edited has been fired by the scan
\* that followed the edit
C9_Witness ==
    /\ scanPc = "loop"
    /\ scanQueue = <<>>
    /\ \E e \in edited : e[2] = TRUE /\ e[1] \in fired

\* C10: in every scan the tasks notified are exactly the stored tasks that, at
\* the start of the scan, had completed = false, notified = false,
\* remindAt <= now and no snooze lasting beyond now: the notified and the
\* still queued tasks make up that set, and none is notified twice.
C10_FiredIsDueSet ==
    scanPc # "idle" =>
        LET due == {id \in DOMAIN scanStart :
                        /\ scanStart[id].completed = FALSE
                        /\ scanStart[id].notified = FALSE
                        /\ scanStart[id].remindAt <= now
                        /\ (scanStart[id].snoozedUntil = NullTime
                              \/ scanStart[id].snoozedUntil <= now)}
            rest == IF scanPc = "update" THEN Tail(scanQueue) ELSE scanQueue
            pending == {rest[i].id : i \in DOMAIN rest}
        IN  /\ fired \cup pending = due
            /\ fired \cap pending = {}
            /\ scanPc = "update" => Head(scanQueue).id \in fired

\* a scan has run to its end, has notified a task and has left out a stored
\* task that was snoozed beyond now
C10_Witness ==
    /\ scanPc = "loop"
    /\ scanQueue = <<>>
    /\ fired # {}
    /\ \E id \in DOMAIN scanStart :
          /\ id \notin fired
          /\ scanStart[id].remindAt <= now
          /\ scanStart[id].snoozedUntil > now

\* C11: at every point of checkDueTasks where the process may die, every task
\* whose row the scan has written (notified set, or remindAt advanced) has had
\* its notification shown, and every task still waiting in the loop is
\* unchanged and still due, so that the next scan finds it again.
C11_WrittenOnlyAfterShown ==
    scanPc # "idle" =>
        LET rest == IF scanPc = "update" THEN Tail(scanQueue) ELSE scanQueue
            pending == {scanQueue[i].id : i \in DOMAIN scanQueue} \ fired
        IN  /\ \A id \in DOMAIN scanStart : tasks[id] # scanStart[id] => id \in fired
            /\ pending = {rest[i].id : i \in DOMAIN rest}
            /\ \A id \in pending :
                  /\ tasks[id] = scanStart[id]
                  /\ tasks[id].completed = FALSE
                  /\ tasks[id].notified = FALSE
                  /\ tasks[id].remindAt <= now

\* a one-shot task was notified, the process died before markTaskNotified,
\* and the scan after the restart notified it again and marked it
C11_Witness ==
    \E id \in DOMAIN tasks :
        /\ IsOneShot(tasks[id])
        /\ tasks[id].notified
        /\ fireCount[id] = 2

\* the recurrences calculateNextReminder has a rule for
Interpretable(rec) ==
    \/ rec.kind \in {"null", "simple", "monthly"}
    \/ rec.kind = "weekly" /\ rec.unit \in DOMAIN dayMap
    \/ /\ rec.kind = "cron"
       /\ Len(rec.cron) = 5
       /\ \A i \in 1..5 : rec.cron[i].t # "bad"

\* C12: no task the scanner fires carries a recurrence the calculator cannot
\* interpret, because add-task and update-task reject such a recurrence.
C12_FiredRecurrenceInterpretable ==
    scanPc = "update" => Interpretable(Head(scanQueue).recurringInterval)

-----------------------------------------------------------------------------
(* Claims about the recurrence calculator                                  *)

UnitSeconds(unit) ==
    CASE unit = "m" -> SecPerMin
      [] unit = "h" -> SecPerHour
      [] unit = "d" -> SecPerDay

\* C13: for every base instant t and every interval of n minutes, hours or
\* days, n any unsigned integer, the next instant is strictly greater than t
\* and is t shifted by exactly n units.
C13_IntervalShiftsForward ==
    (calcSpec.kind = "simple" /\ calcOut # NullTime) =>
        /\ calcOut > calcBase
        /\ calcOut = calcBase + calcSpec.n * UnitSeconds(calcSpec.unit)

\* C14: for every base instant t and every monthly recurrence on day k in
\* 1..31, the next instant lies in the month right after t's month, on day
\* min(k, length of that month), at t's time of day.
C14_MonthlyNextMonthClamped ==
    (calcSpec.kind = "monthly" /\ calcSpec.unit # "last" /\ calcSpec.n \in 1..31
       /\ calcOut # NullTime) =>
        LET y == IF getMonth(calcBase) = 11 THEN getFullYear(calcBase) + 1
                 ELSE getFullYear(calcBase)
            m0 == (getMonth(calcBase) + 1) % 12
            len == DaysInMonth(y, m0)
            day == IF calcSpec.n < len THEN calcSpec.n ELSE len
        IN  calcOut = DayNumber(y, m0, day) * SecPerDay + (calcBase % SecPerDay)

\* C15: for every base instant t, the next instant of a monthly:last
\* recurrence falls on the last day of the month after t's month, whatever
\* t's day of the month is.
C15_MonthlyLastIsLastDay ==
    (calcSpec = MonthlyLastRec /\ calcOut # NullTime) =>
        LET y == IF getMonth(calcBase) = 11 THEN getFullYear(calcBase) + 1
                 ELSE getFullYear(calcBase)
            m0 == (getMonth(calcBase) + 1) % 12
        IN  /\ getFullYear(calcOut) = y
            /\ getMonth(calcOut) = m0
            /\ getDate(calcOut) = DaysInMonth(y, m0)

\* all five fields of a cron expression match the instant t (lines 637-676)
CronMatches(parts, t) ==
    /\ Len(parts) = 5
    /\ matchesCronField(parts[4], getMonth(t) + 1, 1, 12)
    /\ matchesCronField(parts[3], getDate(t), 1, 31)
    /\ matchesCronField(parts[5], getDay(t), 0, 6)
    /\ matchesCronField(parts[2], getHours(t), 0, 23)
    /\ matchesCronField(parts[1], getMinutes(t), 0, 59)

\* No whole-minute instant strictly between lo and hi matches all five
\* fields.  The instants are visited day by day, then hour by hour.
NoMatchBetween(parts, lo, hi) ==
    \A dn \in (lo \div SecPerDay)..(hi \div SecPerDay) :
        LET day == dn * SecPerDay IN
        (/\ Len(parts) = 5
         /\ matchesCronField(parts[4], getMonth(day) + 1, 1, 12)
         /\ matchesCronField(parts[3], getDate(day), 1, 31)
         /\ matchesCronField(parts[5], getDay(day), 0, 6)) =>
            \A h \in 0..23 :
                matchesCronField(parts[2], h, 0, 23) =>
                    \A mi \in 0..59 :
                        LET t == day + h * SecPerHour + mi * SecPerMin IN
                        (lo < t /\ t < hi) => ~matchesCronField(parts[1], mi, 0, 59)

\* C16: for a well-formed five-field cron expression that has a match, the
\* result is the earliest whole-minute instant strictly greater than the base
\* at which all five fields match.
C16_CronResultIsEarliest ==
    (calcSpec.kind = "cron" /\ Interpretable(calcSpec) /\ calcOut # NullTime
       /\ CronMatches(calcSpec.cron, calcOut)) =>
        /\ calcOut > calcBase
        /\ getSeconds(calcOut) = 0
        /\ NoMatchBetween(calcSpec.cron, calcBase, calcOut)

\* C17: for every cron expression the result is either an instant matching
\* all five fields no more than one year after the base, or, when no instant
\* within one year after the base matches, exactly the base plus one hour.
C17_CronWithinYearOrFallback ==
    (calcSpec.kind = "cron" /\ calcOut # NullTime) =>
        \/ /\ CronMatches(calcSpec.cron, calcOut)
           /\ calcOut > calcBase
           /\ calcOut <= calcBase + maxIterations * SecPerMin
        \/ /\ calcOut = calcBase + SecPerHour
           /\ NoMatchBetween(calcSpec.cron, calcBase,
                             calcBase + maxIterations * SecPerMin + 1)

\* C18: asking the cron evaluator again from its own result gives a strictly
\* later instant, also when a result is the one-hour fallback.
C18_CronRequeryStrictlyLater ==
    (calcSpec.kind = "cron" /\ calcOut2 # NullTime) => calcOut2 > calcOut

C18_Witness ==
    /\ calcSpec = CronRec(ExhaustCron)
    /\ calcOut = calcBase + SecPerHour
    /\ calcOut2 = calcOut + SecPerHour

\* C19: for every weekly recurrence on weekday d the next instant has weekday
\* d, is strictly greater than the base and at most seven days after it; when
\* the base already falls on weekday d it is exactly seven days later.
C19_WeeklyNextIsWithinAWeek ==
    (calcSpec.kind = "weekly" /\ calcSpec.unit \in DOMAIN dayMap /\ calcOut # NullTime) =>
        /\ getDay(calcOut) = dayMap[calcSpec.unit]
        /\ calcOut > calcBase
        /\ calcOut <= calcBase + 7 * SecPerDay
        /\ getDay(calcBase) = dayMap[calcSpec.unit] => calcOut = calcBase + 7 * SecPerDay

C19_Witness ==
    /\ calcSpec = WeeklyRec("wed")
    /\ getDay(calcBase) = dayMap["wed"]
    /\ calcOut = calcBase + 7 * SecPerDay

\* C20: in every cron field a step pattern matches exactly the values whose
\* offset from the start of its range is a multiple of n: */n matches v iff
\* (v - fieldMin) mod n = 0, and a-b/n matches v iff a <= v <= b and
\* (v - a) mod n = 0.
C20_StepCountsFromRangeStart ==
    (mOut # "none" /\ mField.t \in {"stepstar", "steprange"} /\ mField.n >= 1) =>
        (mOut = "match") <=>
            IF mField.t = "stepstar"
            THEN (mValue - mRange[1]) % mField.n = 0
            ELSE mField.a <= mValue /\ mValue <= mField.b
                    /\ (mValue - mField.a) % mField.n = 0

-----------------------------------------------------------------------------
(* Claims about the clip store                                             *)

\* two rows are the same sample: same kind and same text, or same kind and
\* same image data
SameSample(r1, r2) ==
    /\ r1.type = r2.type
    /\ IF r1.type = "image" THEN r1.imageData = r2.imageData ELSE r1.content = r2.content

\* C21: after any sequence of store and settings operations the store never
\* holds more than the current maxClips samples, and eviction always removes
\* the oldest samples first.
C21_StoreWithinMaxClips ==
    /\ [](Len(clips) <= maxClips)
    /\ [][\A event \in ClipEvents : OnClip(event) =>
            \E k \in 0..Len(clips) : clips' = SubSeq(clips, k + 1, Len(clips))
               \/ \E row \in {clips'[i] : i \in DOMAIN clips'} :
                     clips' = SubSeq(Append(clips, row), k + 1, Len(clips) + 1)]_vars

\* C22: after any sequence of store operations no two clips adjacent in
\* capture order are identical.
C22_NoAdjacentIdentical ==
    \A i \in 1..(Len(clips) - 1) : ~SameSample(clips[i], clips[i + 1])

-----------------------------------------------------------------------------
(* Claims about the clipboard watcher                                      *)

\* C3: after copy-to-clipboard has written X, no poll tick emits a capture
\* event for X for as long as the clipboard still holds X, wherever the ticks
\* fall between the steps of the request.
C3_NoEchoOfOwnWrite ==
    held # NoEvent => lastEvent # held

\* a copy of an image or of a non-empty text has run to its end, the watcher
\* has resumed, the suppressed tick has run and the clipboard still holds X
C3_Witness ==
    /\ held # NoEvent
    /\ held \in {TextEvent("x")} \cup {ImageEvent(i) : i \in Images}
    /\ awaiting = 0
    /\ ~paused
    /\ ~resumeTimeout
    /\ ~ignoreNextChange
    /\ pollReads.n > 0

\* C4 as claimed: if every poll has read the same clipboard content, at most
\* one capture event has been emitted.
C4_SamePollsOneEvent ==
    pollReads.kind # "mixed" => emitCount <= 1

\* C4, amended: if every read of the clipboard by the watcher (the polls and
\* the re-read of the delayed resume) has returned the same content, at most
\* one capture event has been emitted.
C4_SameReadsOneEvent ==
    allReads.kind # "mixed" => emitCount <= 1

\* one event has been emitted and two or more polls have read the same content
C4_Witness ==
    /\ allReads.kind = "same"
    /\ pollReads.n >= 2
    /\ emitCount = 1
    /\ lastEvent = NoEvent
    /\ ~paused

\* the trackers hold what the clipboard holds
Resynchronized(c, lc, lih) ==
    /\ lc = c.txt
    /\ lih = (IF ~isEmpty(c.img) THEN getImageHash(c.img) ELSE NoHash)

\* C24: on every tick that emits a capture event, all the updates of
\* lastImageHash and lastContent of that tick are done before the callback is
\* called: when the callback throws, the trackers are those a completed tick
\* leaves.
C24_DedupUpdatedBeforeEmit ==
    [][TickEmitThrows =>
        LET r == TickBody(clip, lastContent, lastImageHash, ignoreNextChange)
        IN  lastContent' = r.lastContent /\ lastImageHash' = r.lastImageHash]_vars

\* C25: after every tick that emits a capture event or suppresses one through
\* ignoreNext, lastImageHash is the hash of the image read on that tick (empty
\* when there is no image) and lastContent is the text read on that tick.
C25_TrackersResynchronized ==
    [][(Tick /\ ~paused /\ (ignoreNextChange \/ lastEvent' # NoEvent)) =>
        Resynchronized(clip, lastContent', lastImageHash')]_vars

\* C26: a failure of a read of the clipboard during a tick is 'no change':
\* the tick emits nothing, leaves lastContent, lastImageHash, paused and
\* ignoreNextChange as they were, and no exception leaves the timer callback.
C26_ReadFailureIsNoChange ==
    /\ [](uncaught # "read")
    /\ [][\A call \in {"readImage", "readText"} : TickReadThrows(call) =>
            /\ lastEvent' = NoEvent
            /\ UNCHANGED <<lastContent, lastImageHash, paused, ignoreNextChange>>]_vars

\* C29: content the user puts on the clipboard during a copy-to-clipboard, or
\* before the suppressed tick runs, and that stays there, is eventually
\* captured.
C29_UserContentEventuallyCaptured ==
    pendingUser ~> ~pendingUser

\* C30: with no request inside its wait, the paused flag eventually becomes
\* false again, unless a new request starts.
C30_PausedEventuallyClears ==
    (paused /\ awaiting = 0) ~> (~paused \/ awaiting > 0)

\* two requests overlapped and both have finished; the timer of resume() is
\* pending
C30_Witness ==
    /\ paused
    /\ awaiting = 0
    /\ resumeTimeout
    /\ ignoreNextChange

-----------------------------------------------------------------------------
(* Claims about the toggle machine                                         *)

\* C5: while the window is visible, a blur that arrives less than the
\* debounce window (200 ms) after the last hotkey press is ignored and the
\* window stays visible.
C5_BlurInDebounceIgnored ==
    [][(Blur /\ sinceToggle < DebounceWindow)
          => (visible' /\ toggleOut' = "blur-ignored")]_vars

\* A blur was ignored 50 ms after the hotkey, with isToggling already reset.
C5_Witness ==
    /\ toggleOut = "blur-ignored"
    /\ visible
    /\ sinceToggle = RecheckDelay
    /\ ~isToggling

\* C6 (as stated): while the window is visible, a blur that arrives at or
\* after the end of the debounce window hides the window.
C6_BlurAfterDebounceHides ==
    [][(Blur /\ sinceToggle >= DebounceWindow) => ~visible']_vars

\* C6 (amended): while the window is visible, a blur that arrives at or after
\* the end of the debounce window hides the window unless isToggling is still
\* set; more than 500 ms after the last hotkey press isToggling is not set.
C6_BlurAfterDebounceHidesUnlessToggling ==
    /\ [][(Blur /\ sinceToggle >= DebounceWindow /\ ~isToggling)
             => (~visible' /\ toggleOut' = "blur-hidden")]_vars
    /\ [](sinceToggle > ToggleResetDelay => ~isToggling)

\* A blur hid the window 500 ms after the hotkey that showed it.
C6_Witness ==
    /\ toggleOut = "blur-hidden"
    /\ ~visible
    /\ sinceToggle = ToggleResetDelay
    /\ ~notifShown

\* C7: a hotkey press while the readiness wait is pending cancels the wait and
\* leaves the window hidden: until the next hotkey press or notification click
\* the window is not shown and no 'window-shown' is sent, and the only
\* readiness timer ever pending is the one of the wait in progress.
C7_CancelledWaitNeverShows ==
    /\ cancelled => /\ ~visible
                    /\ ~isShowingWindow
                    /\ readyTimers = {}
                    /\ showWindowTimeout = NoTimer
                    /\ toggleOut # "window-shown"
    /\ readyTimers # {} => /\ isShowingWindow
                           /\ readyTimers = {showWindowTimeout}

\* A wait was cancelled, and the time its timer was set for has passed.
C7_Witness ==
    /\ cancelled
    /\ sinceToggle > SettleDelay
    /\ pageState = "loaded"

\* C8: every 'window-shown' is sent by a step that takes the window from not
\* visible to visible.
C8_ShownOnlyWhenHidden ==
    [][(toggleOut' = "window-shown" /\ togVars' # togVars)
          => (~visible /\ visible')]_vars

\* C23: a blur that arrives right after the toggle machine has shown the
\* window never hides it, however long the wait for readiness lasted and
\* whatever hotkey presses and reset timers came before.
C23_BlurAfterShowIgnored ==
    [][(toggleOut = "window-shown" /\ Blur) => toggleOut' # "blur-hidden"]_vars

\* C27: whenever the window becomes hidden, by any path, isContentReady and
\* isShowingWindow are reset and no readiness timer is pending, and
\* isContentReady is not set again for as long as the window stays hidden.
C27_HiddenResetsReadiness ==
    /\ [][(visible /\ ~visible') =>
            /\ ~isContentReady'
            /\ ~isShowingWindow'
            /\ showWindowTimeout' = NoTimer
            /\ readyTimers' = {}]_vars
    /\ [](rehidden => ~isContentReady)

\* C28: once the machine is showing and no further hotkey arrives, it leaves
\* the wait after a bounded number of polls, even if the page keeps reporting
\* that it is loading.
C28_ShowingWaitIsBounded ==
    isShowingWindow ~> ~isShowingWindow

-----------------------------------------------------------------------------
(* Specifications.  The scanner and the watcher are checked on their own.  *)
(* The toggle machine is checked while the page loads (SpecStartup), and   *)
(* once it is loaded together with the scan that puts the notifications on *)
(* the screen (SpecToggle).                                                *)

WatchAtRest == WatchInit /\ clip = Content(NoImage, "")

CalcAtRest ==
    /\ calcBase = NullTime
    /\ calcSpec = NullRec
    /\ calcOut = NullTime
    /\ calcOut2 = NullTime
    /\ mField = FStar
    /\ mValue = 0
    /\ mRange = <<>>
    /\ mOut = "none"

StoreAtRest == StoreInit /\ maxClips = MaxClipsSetting

InitScan == ScanInit /\ WatchAtRest /\ TogInit /\ CalcAtRest /\ StoreAtRest

SpecScan == InitScan /\ [][ScanNext]_vars

SpecCrash == InitScan /\ [][CrashNext]_vars

InitCalc == ScanInit /\ tasks = <<>> /\ WatchAtRest /\ TogInit /\ CalcInit /\ StoreAtRest

SpecCalc == InitCalc /\ [][CalcNext]_vars

InitWatch == ScanInit /\ tasks = <<>> /\ WatchInit /\ TogInit /\ CalcAtRest /\ StoreAtRest

SpecWatch == InitWatch /\ [][WatchNext]_vars

\* the poll ticks with the failures of the calls they make
SpecWatchFail == InitWatch /\ [][WatchFailNext]_vars

\* The interval timer, the 200 ms wait of a request and the 100 ms timer of
\* resume() all run out.
SpecWatchFair ==
    /\ InitWatch
    /\ [][WatchNext]_vars
    /\ WF_vars(Tick)
    /\ WF_vars(CopyFinish)
    /\ WF_vars(ResumeTimer)

InitStartup == ScanInit /\ tasks = <<>> /\ WatchAtRest /\ TogInit /\ CalcAtRest /\ StoreAtRest

SpecStartup == InitStartup /\ [][StartupNext]_vars

\* Time passes and every timer that is due runs; nothing makes the page
\* finish loading and nothing makes the user press the hotkey.
SpecStartupFair ==
    /\ InitStartup
    /\ [][StartupNext]_vars
    /\ WF_vars(Elapse)
    /\ WF_vars(\E t \in readyTimers : ReadyTimerFires(t))
    /\ WF_vars(\E t \in toggleTimers : ToggleTimerFires(t))
    /\ WF_vars(MarkContentReady)

InitToggle == ScanInit /\ tasks = DueAtStart /\ WatchAtRest /\ TogLoaded /\ CalcAtRest /\ StoreAtRest

SpecToggle == InitToggle /\ [][ToggleNext]_vars

InitStore == ScanInit /\ tasks = <<>> /\ WatchAtRest /\ TogInit /\ CalcAtRest /\ StoreInit

SpecStore == InitStore /\ [][StoreNext]_vars

====
